---- MODULE Spec2Model ----
(***************************************************************************)
(* Control flow of main() in                                               *)
(* examples/language_model/llama/finetune_generation.py.                   *)
(*                                                                         *)
(* main() is a straight-line driver: it parses the arguments, looks for a  *)
(* checkpoint in the output directory, picks the model class, loads and    *)
(* optionally wraps the model, builds the datasets and the trainer, and    *)
(* then trains and/or evaluates.  The library calls (from_pretrained,      *)
(* load_dataset, LlamaTrainer, trainer.train, ...) are recorded in the     *)
(* sequence `calls` in the order main() makes them and are taken to        *)
(* return normally; the only exceptions modelled are the ones main() can   *)
(* raise itself (the two ValueErrors, and the UnboundLocalError python     *)
(* raises when a local name is read before it is assigned).               *)
(***************************************************************************)
EXTENDS Integers, Sequences, FiniteSets, TLC

\* ---------------------------------------------------------------- bounds
MaxEntries == 2      \* largest len(os.listdir(output_dir)) explored
MaxCkpt == 2         \* checkpoints get_last_checkpoint may report
MaxPPDegree == 2     \* largest pipeline_parallel_degree explored
MaxTPDegree == 2     \* largest tensor_parallel_degree explored

\* ------------------------------------------------------------ vocabulary
None == "None"

Checkpoints == {"checkpoint-" \o ToString(i) : i \in 1..MaxCkpt}

ValueErrorOutputDir == "ValueError: Output directory already exists and is not empty. Use --overwrite_output_dir to overcome."

ValueErrorPipeline == "ValueError: Plese set eval_with_do_generation to false in pipeline parallel mode."

UnboundLocalError == "UnboundLocalError"

VARIABLES
    pc,               \* statement of main() to run next; "done" / "raised"
    error,            \* the exception that ended main(), None if none
    model_args,       \* ModelArgument
    training_args,    \* TrainingArguments (the fields main() reads)
    output_dir,       \* what the os / get_last_checkpoint report about it
    bound,            \* names of the locals of main() that are assigned
    last_checkpoint,
    dtype,
    model_class,
    model,            \* innermost class first, outermost wrapper last
    train_ds,
    dev_ds,
    trans_func,
    trainer,          \* keyword arguments LlamaTrainer was built with
    calls             \* library calls made so far, in order

vars == <<pc, error, model_args, training_args, output_dir, bound,
          last_checkpoint, dtype, model_class, model, train_ds, dev_ds,
          trans_func, trainer, calls>>

\* -------------------------------------------------------------- helpers
Call(fn, arg) == [fn |-> fn, arg |-> arg]

Count(fn) == Cardinality({i \in DOMAIN calls : calls[i].fn = fn})

\* index of the first call fn(arg) in the log, 0 if there is none
IndexOf(fn, arg) ==
    IF \E i \in DOMAIN calls : calls[i] = Call(fn, arg)
    THEN CHOOSE i \in DOMAIN calls :
            /\ calls[i] = Call(fn, arg)
            /\ \A j \in DOMAIN calls : calls[j] = Call(fn, arg) => i <= j
    ELSE 0

PyBool(b) == IF b THEN "True" ELSE "False"

ModelArgument ==
    [lora : BOOLEAN, eval_with_do_generation : BOOLEAN, prefix_tuning : BOOLEAN]

ModelArgumentDefault ==
    [lora |-> FALSE, eval_with_do_generation |-> TRUE, prefix_tuning |-> FALSE]

TrainingArguments ==
    [do_train : BOOLEAN, do_eval : BOOLEAN, overwrite_output_dir : BOOLEAN,
     resume_from_checkpoint : {None} \cup Checkpoints,
     pipeline_parallel_degree : 1..MaxPPDegree,
     tensor_parallel_degree : 1..MaxTPDegree,
     fp16_opt_level : {"O1", "O2"}, fp16 : BOOLEAN, bf16 : BOOLEAN]

TrainingArgumentsDefault ==
    [do_train |-> FALSE, do_eval |-> FALSE, overwrite_output_dir |-> FALSE,
     resume_from_checkpoint |-> None, pipeline_parallel_degree |-> 1,
     tensor_parallel_degree |-> 1,
     fp16_opt_level |-> "O1", fp16 |-> FALSE, bf16 |-> FALSE]

\* What the file system holds at training_args.output_dir when main()
\* starts: isdir is os.path.isdir, nentries is len(os.listdir), ckpt is the
\* value get_last_checkpoint returns.  A checkpoint is an entry of the
\* directory, and only a directory has entries.
OutputDirStates ==
    {d \in [isdir : BOOLEAN, nentries : 0..MaxEntries,
            ckpt : {None} \cup Checkpoints] :
        /\ ~d.isdir => d.nentries = 0
        /\ d.ckpt # None => d.nentries >= 1}

\* line 97
DetectCondNoOverwrite ==
    output_dir.isdir /\ training_args.do_train

DetectCond ==
    /\ output_dir.isdir
    /\ training_args.do_train
    /\ ~training_args.overwrite_output_dir

\* line 99, evaluated after last_checkpoint was assigned on line 98
DirNotEmptyCond(ckpt) ==
    ckpt = None /\ output_dir.nentries > 1

\* lines 119-120
PipelineConflictOffByOne ==
    /\ training_args.pipeline_parallel_degree > 2
    /\ model_args.eval_with_do_generation
    /\ training_args.do_eval

PipelineConflict ==
    /\ training_args.pipeline_parallel_degree > 1
    /\ model_args.eval_with_do_generation
    /\ training_args.do_eval

\* line 151
PrefixCondElif == model_args.prefix_tuning /\ ~model_args.lora

PrefixCond == model_args.prefix_tuning

\* line 176
LoadDatasetCondTrainOnly == training_args.do_train

LoadDatasetCond == training_args.do_train \/ training_args.do_eval

\* line 231
DoEvalCondElse == training_args.do_eval /\ ~training_args.do_train

DoEvalCond == training_args.do_eval

\* ds.map(fn)
Map(ds, fn) == ds \o ".map(" \o fn \o ")"

Raise(e) ==
    /\ pc' = "raised"
    /\ error' = e

\* ----------------------------------------------------------------- Init
Init ==
    /\ pc = "parse_args"
    /\ error = None
    /\ model_args = ModelArgumentDefault
    /\ training_args = TrainingArgumentsDefault
    /\ output_dir \in OutputDirStates
    /\ bound = {}
    /\ last_checkpoint = None
    /\ dtype = None
    /\ model_class = None
    /\ model = <<>>
    /\ train_ds = None
    /\ dev_ds = None
    /\ trans_func = None
    /\ trainer = [model |-> <<>>, train_dataset |-> None,
                  eval_dataset |-> None, compute_metrics |-> None,
                  do_generation |-> None]
    /\ calls = <<>>

\* -------------------------------------------------------------- actions
\* lines 75-93
ParseArgs ==
    /\ pc = "parse_args"
    /\ \E m \in ModelArgument, t \in TrainingArguments :
          /\ model_args' = m
          /\ training_args' = t
    /\ calls' = calls \o
          << Call("parse_args_into_dataclasses", None),
             Call("print_config", "Model"),
             Call("print_config", "Data"),
             Call("paddle.set_device", None),
             Call("set_seed", None) >>
    /\ bound' = bound \cup {"parser", "model_args", "data_args",
                             "training_args"}
    /\ pc' = "detect_checkpoint"
    /\ UNCHANGED <<error, output_dir, last_checkpoint, dtype, model_class,
                   model, train_ds, dev_ds, trans_func, trainer>>

\* lines 95-108
DetectLastCheckpoint ==
    /\ pc = "detect_checkpoint"
    /\ bound' = bound \cup {"last_checkpoint"}
    /\ IF DetectCond
       THEN /\ last_checkpoint' = output_dir.ckpt
            /\ calls' = Append(calls, Call("get_last_checkpoint", None))
            /\ IF DirNotEmptyCond(output_dir.ckpt)
               THEN Raise(ValueErrorOutputDir)
               ELSE /\ pc' = "set_dtype"
                    /\ error' = error
       ELSE /\ last_checkpoint' = None
            /\ pc' = "set_dtype"
            /\ error' = error
            /\ UNCHANGED calls
    /\ UNCHANGED <<model_args, training_args, output_dir, dtype, model_class,
                   model, train_ds, dev_ds, trans_func, trainer>>

\* lines 110-116
SetDtype ==
    /\ pc = "set_dtype"
    /\ dtype' = IF training_args.fp16_opt_level = "O2"
                THEN IF training_args.bf16 THEN "bfloat16"
                     ELSE IF training_args.fp16 THEN "float16"
                     ELSE "float32"
                ELSE "float32"
    /\ bound' = bound \cup {"dtype"}
    /\ pc' = "select_model_class"
    /\ UNCHANGED <<error, model_args, training_args, output_dir,
                   last_checkpoint, model_class, model, train_ds, dev_ds,
                   trans_func, trainer, calls>>

\* lines 118-122
SelectModelClass ==
    /\ pc = "select_model_class"
    /\ bound' = bound \cup {"model_class"}
    /\ IF training_args.pipeline_parallel_degree > 1
       THEN IF PipelineConflict
            THEN /\ model_class' = "AutoModelForCausalLM"
                 /\ Raise(ValueErrorPipeline)
            ELSE /\ model_class' = "LlamaForCausalLMPipe"
                 /\ pc' = "from_pretrained"
                 /\ error' = error
       ELSE /\ model_class' = "AutoModelForCausalLM"
            /\ pc' = "from_pretrained"
            /\ error' = error
    /\ UNCHANGED <<model_args, training_args, output_dir, last_checkpoint,
                   dtype, model, train_ds, dev_ds, trans_func, trainer,
                   calls>>

\* lines 124-135
LoadModel ==
    /\ pc = "from_pretrained"
    /\ model' = <<model_class>>
    /\ calls' = Append(calls, Call(model_class \o ".from_pretrained", dtype))
    /\ bound' = bound \cup {"model"}
    /\ pc' = "lora"
    /\ UNCHANGED <<error, model_args, training_args, output_dir,
                   last_checkpoint, dtype, model_class, train_ds, dev_ds,
                   trans_func, trainer>>

\* lines 137-149
WrapLora ==
    /\ pc = "lora"
    /\ IF model_args.lora
       THEN /\ model' = Append(model, "LoRAModel")
            /\ calls' = calls \o
                  << Call("LoRAConfig", dtype),
                     Call("LoRAModel", None),
                     Call("mark_only_lora_as_trainable", None),
                     Call("print_trainable_parameters", None) >>
            /\ bound' = bound \cup {"lora_config"}
       ELSE UNCHANGED <<model, calls, bound>>
    /\ pc' = "prefix_tuning"
    /\ UNCHANGED <<error, model_args, training_args, output_dir,
                   last_checkpoint, dtype, model_class, train_ds, dev_ds,
                   trans_func, trainer>>

\* lines 151-167
WrapPrefix ==
    /\ pc = "prefix_tuning"
    /\ IF PrefixCond
       THEN /\ model' = Append(model, "PrefixModelForCausalLM")
            /\ calls' = calls \o
                  << Call("PrefixConfig", dtype),
                     Call("PrefixModelForCausalLM", None),
                     Call("mark_only_prefix_as_trainable", None),
                     Call("print_trainable_parameters", None) >>
            /\ bound' = bound \cup {"prefix_config"}
       ELSE UNCHANGED <<model, calls, bound>>
    /\ pc' = "tokenizer"
    /\ UNCHANGED <<error, model_args, training_args, output_dir,
                   last_checkpoint, dtype, model_class, train_ds, dev_ds,
                   trans_func, trainer>>

\* lines 169-173
LoadTokenizer ==
    /\ pc = "tokenizer"
    /\ calls' = Append(calls, Call("AutoTokenizer.from_pretrained", "left"))
    /\ bound' = bound \cup {"tokenizer"}
    /\ pc' = "load_dataset"
    /\ UNCHANGED <<error, model_args, training_args, output_dir,
                   last_checkpoint, dtype, model_class, model, train_ds,
                   dev_ds, trans_func, trainer>>

\* lines 175-178
LoadDataset ==
    /\ pc = "load_dataset"
    /\ IF LoadDatasetCond
       THEN /\ train_ds' = "train_v1"
            /\ dev_ds' = "dev_v1"
            /\ trans_func' = "convert_example"
            /\ calls' = Append(calls, Call("load_dataset", "train_v1,dev_v1"))
            /\ bound' = bound \cup {"train_ds", "dev_ds", "trans_func"}
       ELSE UNCHANGED <<train_ds, dev_ds, trans_func, calls, bound>>
    /\ pc' = "map_train"
    /\ UNCHANGED <<error, model_args, training_args, output_dir,
                   last_checkpoint, dtype, model_class, model, trainer>>

\* lines 180-181
MapTrain ==
    /\ pc = "map_train"
    /\ IF training_args.do_train
       THEN IF {"train_ds", "trans_func"} \subseteq bound
            THEN /\ train_ds' = Map(train_ds, trans_func)
                 /\ pc' = "map_eval"
                 /\ error' = error
            ELSE /\ Raise(UnboundLocalError)
                 /\ UNCHANGED train_ds
       ELSE /\ pc' = "map_eval"
            /\ UNCHANGED <<train_ds, error>>
    /\ UNCHANGED <<model_args, training_args, output_dir, bound,
                   last_checkpoint, dtype, model_class, model, dev_ds,
                   trans_func, trainer, calls>>

\* lines 182-185
MapEval ==
    /\ pc = "map_eval"
    /\ IF training_args.do_eval
       THEN IF {"dev_ds", "trans_func"} \subseteq bound
            THEN /\ dev_ds' = Map(dev_ds, trans_func \o ",is_test="
                                \o PyBool(model_args.eval_with_do_generation))
                 /\ bound' = bound \cup {"is_test"}
                 /\ pc' = "build_trainer"
                 /\ error' = error
            ELSE /\ Raise(UnboundLocalError)
                 /\ bound' = bound \cup {"is_test"}
                 /\ UNCHANGED dev_ds
       ELSE /\ pc' = "build_trainer"
            /\ UNCHANGED <<dev_ds, error, bound>>
    /\ UNCHANGED <<model_args, training_args, output_dir, last_checkpoint,
                   dtype, model_class, model, train_ds, trans_func, trainer,
                   calls>>

\* lines 187-222
BuildTrainer ==
    /\ pc = "build_trainer"
    /\ IF \/ training_args.do_train /\ "train_ds" \notin bound
          \/ training_args.do_eval /\ "dev_ds" \notin bound
       THEN /\ Raise(UnboundLocalError)
            /\ calls' = Append(calls,
                          Call("DataCollatorForSupervisedDataset", None))
            /\ bound' = bound \cup {"collate_fn", "compute_metrics_func"}
            /\ UNCHANGED trainer
       ELSE /\ trainer' =
                [model |-> model,
                 train_dataset |->
                    IF training_args.do_train THEN train_ds ELSE None,
                 eval_dataset |->
                    IF training_args.do_eval THEN dev_ds ELSE None,
                 compute_metrics |->
                    IF model_args.eval_with_do_generation
                       /\ training_args.do_eval
                    THEN "compute_metrics_trainer" ELSE None,
                 do_generation |->
                    PyBool(model_args.eval_with_do_generation)]
            /\ calls' = calls \o
                  << Call("DataCollatorForSupervisedDataset", None),
                     Call("LlamaTrainer", None) >>
            /\ bound' = bound \cup
                  {"collate_fn", "compute_metrics_func", "trainer"}
            /\ pc' = "train"
            /\ error' = error
    /\ UNCHANGED <<model_args, training_args, output_dir, last_checkpoint,
                   dtype, model_class, model, train_ds, dev_ds, trans_func>>

\* lines 224-229
Train ==
    /\ pc = "train"
    /\ IF training_args.do_train
       THEN /\ calls' = calls \o
                  << Call("train", last_checkpoint),
                     Call("save_model",
                          PyBool(training_args.tensor_parallel_degree > 1)),
                     Call("log_metrics", "train"),
                     Call("save_metrics", "train"),
                     Call("save_state", None) >>
            /\ bound' = bound \cup {"train_result"}
       ELSE UNCHANGED <<calls, bound>>
    /\ pc' = "evaluate"
    /\ UNCHANGED <<error, model_args, training_args, output_dir,
                   last_checkpoint, dtype, model_class, model, train_ds,
                   dev_ds, trans_func, trainer>>

\* lines 231-233
Evaluate ==
    /\ pc = "evaluate"
    /\ IF DoEvalCond
       THEN /\ calls' = calls \o
                  << Call("evaluate", None), Call("log_metrics", "test") >>
            /\ bound' = bound \cup {"eval_result"}
       ELSE UNCHANGED <<calls, bound>>
    /\ pc' = "done"
    /\ UNCHANGED <<error, model_args, training_args, output_dir,
                   last_checkpoint, dtype, model_class, model, train_ds,
                   dev_ds, trans_func, trainer>>

Next ==
    \/ ParseArgs
    \/ DetectLastCheckpoint
    \/ SetDtype
    \/ SelectModelClass
    \/ LoadModel
    \/ WrapLora
    \/ WrapPrefix
    \/ LoadTokenizer
    \/ LoadDataset
    \/ MapTrain
    \/ MapEval
    \/ BuildTrainer
    \/ Train
    \/ Evaluate

Spec == Init /\ [][Next]_vars

\* ------------------------------------------------------------ properties
Called(fn) == \E i \in DOMAIN calls : calls[i].fn = fn

ModelLoaded ==
    \/ Called("AutoModelForCausalLM.from_pretrained")
    \/ Called("LlamaForCausalLMPipe.from_pretrained")

\* nothing from the model load onwards has been called
NothingLoaded ==
    /\ ~ModelLoaded
    /\ ~Called("AutoTokenizer.from_pretrained")
    /\ ~Called("load_dataset")
    /\ ~Called("LlamaTrainer")
    /\ ~Called("train")
    /\ ~Called("evaluate")

TrainerBuilt == "trainer" \in bound

\* the check of lines 97-103 raises for these arguments and this directory
OutputDirRaises ==
    /\ training_args.do_train
    /\ ~training_args.overwrite_output_dir
    /\ output_dir.isdir
    /\ output_dir.ckpt = None
    /\ output_dir.nentries > 1

\* C1: in a run of main() that raises no error, trainer.train is called
\* exactly once if do_train is set and never otherwise, trainer.evaluate is
\* called exactly once if do_eval is set and never otherwise, and when both
\* are set evaluate comes only after train, save_model, log_metrics('train'),
\* save_metrics('train') and save_state, which were called in that order.
C1_TrainThenEvaluate ==
    /\ Count("train") <= 1
    /\ Count("evaluate") <= 1
    /\ Called("train") => training_args.do_train
    /\ Called("evaluate") => training_args.do_eval
    /\ pc = "done" =>
          /\ Count("train") = (IF training_args.do_train THEN 1 ELSE 0)
          /\ Count("evaluate") = (IF training_args.do_eval THEN 1 ELSE 0)
    /\ (Called("evaluate") /\ training_args.do_train) =>
          /\ 0 < IndexOf("train", last_checkpoint)
          /\ IndexOf("train", last_checkpoint) + 1
                = IndexOf("save_model",
                          PyBool(training_args.tensor_parallel_degree > 1))
          /\ IndexOf("train", last_checkpoint) + 2
                = IndexOf("log_metrics", "train")
          /\ IndexOf("train", last_checkpoint) + 3
                = IndexOf("save_metrics", "train")
          /\ IndexOf("train", last_checkpoint) + 4
                = IndexOf("save_state", None)
          /\ IndexOf("save_state", None) < IndexOf("evaluate", None)
          /\ Count("save_model") = 1
          /\ Count("save_metrics") = 1
          /\ Count("save_state") = 1

C1_Witness ==
    /\ pc = "done"
    /\ training_args.do_train
    /\ training_args.do_eval
    /\ Count("train") = 1
    /\ Count("evaluate") = 1

\* C2 (as stated): once main() is past the model class selection with
\* pipeline_parallel_degree > 1, eval_with_do_generation and do_eval, it has
\* failed with the 'Plese set eval_with_do_generation ...' ValueError and
\* nothing from from_pretrained onwards was called.
C2_AsStated ==
    ( /\ pc \notin {"parse_args", "detect_checkpoint", "set_dtype",
                    "select_model_class"}
      /\ training_args.pipeline_parallel_degree > 1
      /\ model_args.eval_with_do_generation
      /\ training_args.do_eval )
    => ( /\ pc = "raised"
         /\ error = ValueErrorPipeline
         /\ NothingLoaded )

\* C2 (amended): with pipeline_parallel_degree > 1, eval_with_do_generation
\* and do_eval, main() fails with a ValueError before any model is loaded;
\* the error is the 'Plese set eval_with_do_generation ...' one unless the
\* output directory check of lines 97-103 raised its own ValueError first.
C2_PipelineEvalRejected ==
    ( /\ pc \notin {"parse_args", "detect_checkpoint", "set_dtype",
                    "select_model_class"}
      /\ training_args.pipeline_parallel_degree > 1
      /\ model_args.eval_with_do_generation
      /\ training_args.do_eval )
    => ( /\ pc = "raised"
         /\ error = (IF OutputDirRaises THEN ValueErrorOutputDir
                     ELSE ValueErrorPipeline)
         /\ NothingLoaded )

C2_Witness ==
    /\ pc = "raised"
    /\ error = ValueErrorPipeline
    /\ training_args.pipeline_parallel_degree > 1
    /\ model_args.eval_with_do_generation
    /\ training_args.do_eval
    /\ training_args.do_train

\* C3: if do_train is set, overwrite_output_dir is not, the output directory
\* exists and is not empty and no checkpoint is found in it, main() fails
\* with the 'Output directory ... already exists and is not empty' ValueError
\* before any model is loaded or any training starts.
C3_NonEmptyOutputDirRejected ==
    ( /\ pc \notin {"parse_args", "detect_checkpoint"}
      /\ training_args.do_train
      /\ ~training_args.overwrite_output_dir
      /\ output_dir.isdir
      /\ output_dir.nentries > 0
      /\ output_dir.ckpt = None )
    => ( /\ pc = "raised"
         /\ error = ValueErrorOutputDir
         /\ NothingLoaded )

\* C4: every call of trainer.train passes as resume_from_checkpoint the last
\* checkpoint found in output_dir if output_dir is an existing directory and
\* overwrite_output_dir is not set, and None if overwrite_output_dir is set
\* or output_dir is not a directory; a run with do_train that raises no
\* error makes that call.
C4_ResumeFromLastCheckpoint ==
    /\ \A i \in DOMAIN calls :
          calls[i].fn = "train" =>
             calls[i].arg =
                (IF output_dir.isdir /\ ~training_args.overwrite_output_dir
                 THEN output_dir.ckpt ELSE None)
    /\ (pc = "done" /\ training_args.do_train) => Called("train")

C4_Witness ==
    /\ pc = "done"
    /\ ~training_args.overwrite_output_dir
    /\ training_args.resume_from_checkpoint = None
    /\ \E i \in DOMAIN calls :
          /\ calls[i].fn = "train"
          /\ calls[i].arg \in Checkpoints

C6_DatasetsAsNeeded ==
    /\ error # UnboundLocalError
    /\ pc = "raised" =>
          /\ error \in {ValueErrorOutputDir, ValueErrorPipeline}
          /\ NothingLoaded
    /\ Called("load_dataset") =>
          (training_args.do_train \/ training_args.do_eval)
    /\ pc \in {"map_train", "map_eval", "build_trainer", "train",
               "evaluate", "done"} =>
          Count("load_dataset") =
             (IF training_args.do_train \/ training_args.do_eval
              THEN 1 ELSE 0)
    /\ pc \in {"train", "evaluate", "done"} =>
          /\ {"model", "tokenizer", "trainer"} \subseteq bound
          /\ trainer.train_dataset =
                (IF training_args.do_train
                 THEN "train_v1.map(convert_example)" ELSE None)
          /\ trainer.eval_dataset =
                (IF training_args.do_eval
                 THEN IF model_args.eval_with_do_generation
                      THEN "dev_v1.map(convert_example,is_test=True)"
                      ELSE "dev_v1.map(convert_example,is_test=False)"
                 ELSE None)

C6_Witness ==
    /\ pc = "done"
    /\ ~training_args.do_train
    /\ training_args.do_eval
    /\ trainer.train_dataset = None
    /\ trainer.eval_dataset = "dev_v1.map(convert_example,is_test=True)"

====
